---------------------------- MODULE Spec2Model ----------------------------
(***************************************************************************)
(* Model of src/app.py: the stepwise ECG interpretation workflow of main() *)
(* and the Bazett correction calculate_qtc().                              *)
(*                                                                         *)
(* One run of the script is a walk of pc through the steps of main(), in   *)
(* source order.  Every widget value is an input, chosen with \E when the  *)
(* step that reads it runs.                                                *)
(*                                                                         *)
(* Numbers.  Python floats are modelled as exact rationals [num, den]      *)
(* kept in lowest terms; the one irrational quantity, the QTc, is kept as  *)
(* a signed square root [sgn, sq] standing for sgn * sqrt(sq).             *)
(*                                                                         *)
(* Text.  A Python string is a sequence of fragments, cut so that the      *)
(* words the script searches for ("Sinus", "LAD", "RAD", "ST Elevation")   *)
(* are fragments of their own: `needle in text` is then Contains.          *)
(***************************************************************************)
EXTENDS Integers, Sequences, FiniteSets, TLC

VARIABLES
    pc,                 \* position of the run in main()
    uploaded_file,      \* TRUE iff st.file_uploader returned a file
    clinical_context,   \* the sidebar text area
    report,             \* the dict `report`, as the sequence of its items
    heart_rate,         \* rational
    pr_squares,         \* rational
    pr_ms,              \* rational
    lead_I,             \* "unset" until the Lead I radio is read
    lead_aVF,           \* "unset" until the Lead aVF radio is read
    lead_II,            \* "unset" until the Lead II radio is rendered
    st_selected,        \* what st.multiselect returned
    st_findings,        \* st_findings after the empty-selection default
    qt_ms,              \* rational
    qtc,                \* signed square root
    limit,              \* 440 or 460; 0 before the gender radio is read
    alerts,             \* st.error / st.warning / st.success boxes, in order
    summary,            \* list of summary sentences
    final_text          \* the report text, as a sequence of lines

vars == <<pc, uploaded_file, clinical_context, report, heart_rate, pr_squares,
          pr_ms, lead_I, lead_aVF, lead_II, st_selected, st_findings, qt_ms, qtc,
          limit, alerts, summary, final_text>>

---------------------------------------------------------------------------
(* Exact arithmetic *)

Abs(n) == IF n < 0 THEN -n ELSE n

Sign(n) == IF n < 0 THEN -1 ELSE IF n = 0 THEN 0 ELSE 1

RECURSIVE GCD(_, _)
GCD(a, b) == IF b = 0 THEN a ELSE GCD(b, a % b)

\* The rational n/d (d # 0) in lowest terms with a positive denominator.
Rat(n, d) ==
    LET g == GCD(Abs(n), Abs(d))
    IN  [num |-> Sign(d) * (n \div g), den |-> Abs(d) \div g]

RatInt(n) == [num |-> n, den |-> 1]

RatMul(a, b) == Rat(a.num * b.num, a.den * b.den)

RatDiv(a, b) == Rat(a.num * b.den, a.den * b.num)

RatLt(a, b) == a.num * b.den < b.num * a.den

RatLe(a, b) == a.num * b.den <= b.num * a.den

\* Python's int(x) for a rational: truncation towards zero.
RatTrunc(a) == Sign(a.num) * (Abs(a.num) \div a.den)

RECURSIVE ISqrtIn(_, _, _)
\* The largest r in lo..hi with r * r <= n, by bisection (lo * lo <= n).
ISqrtIn(n, lo, hi) ==
    IF lo >= hi THEN lo
    ELSE LET mid == (lo + hi + 1) \div 2
         IN  IF mid * mid <= n THEN ISqrtIn(n, mid, hi) ELSE ISqrtIn(n, lo, mid - 1)

\* floor(sqrt(n)) for 0 <= n < 2^30.
ISqrt(n) == ISqrtIn(n, 0, 32767)

\* math.sqrt of a non-negative rational.
Sqrt(a) == [sgn |-> Sign(a.num), sq |-> a]

\* a / s for a rational a and a square root s # 0.
DivBySqrt(a, s) == [sgn |-> Sign(a.num) * s.sgn, sq |-> RatDiv(RatMul(a, a), s.sq)]

\* s > n for a square root s and an integer n >= 0.
SqrtGt(s, n) == s.sgn = 1 /\ RatLt(RatInt(n * n), s.sq)

\* Python's int(s) for a square root s.
SqrtTrunc(s) == s.sgn * ISqrt(s.sq.num \div s.sq.den)

---------------------------------------------------------------------------
(* Text *)

\* Python's `needle in text`, for a needle that is a fragment.
Contains(text, needle) == \E i \in 1..Len(text) : text[i] = needle

RECURSIVE Join(_, _)
\* sep.join(texts)
Join(sep, texts) ==
    IF texts = <<>> THEN <<>>
    ELSE IF Len(texts) = 1 THEN texts[1]
    ELSE texts[1] \o <<sep>> \o Join(sep, Tail(texts))

\* str(list) of a list of strings: ['a', 'b']
StrOfList(texts) ==
    IF texts = <<>> THEN <<"[]">>
    ELSE <<"['">> \o Join("', '", texts) \o <<"']">>

\* f"{int(x)} unit"
Fmt(n, unit) == <<ToString(n), unit>>

---------------------------------------------------------------------------
(* The dict `report`: items in insertion order *)

Keys(d) == [i \in 1..Len(d) |-> d[i].key]

HasKey(d, k) == \E i \in 1..Len(d) : d[i].key = k

\* d[k]; a missing key raises KeyError in Python and is "KeyError" here.
Get(d, k) ==
    IF HasKey(d, k) THEN d[CHOOSE i \in 1..Len(d) : d[i].key = k].val
    ELSE <<"KeyError">>

\* d[k] = v: an existing key keeps its place, a new key goes last.
DictSet(d, k, v) ==
    IF HasKey(d, k)
    THEN [i \in 1..Len(d) |-> IF d[i].key = k THEN [key |-> k, val |-> v] ELSE d[i]]
    ELSE Append(d, [key |-> k, val |-> v])

Alert(step, kind, text) == [step |-> step, kind |-> kind, text |-> text]

---------------------------------------------------------------------------
(* Widget options and input samples *)

RhythmOptions == {<<"Regular">>, <<"Irregular">>}

PWaveOptions ==
    { <<"Present & Upright (", "Sinus", ")">>, <<"Absent">>, <<"Inverted">>,
      <<"Sawtooth Pattern">>, <<"More P waves than QRS">> }

PolarityOptions == {"Positive", "Negative", "Equiphasic"}

LeadIIOptions == {"Positive", "Negative"}

StOptions ==
    { <<"None/Normal">>, <<"ST Elevation", " (STEMI/Pericarditis)">>,
      <<"ST Depression (Ischemia)">>, <<"T Wave Inversion">>, <<"Peaked T Waves">> }

GenderOptions == {"Male", "Female"}

\* Longest ST/T multi-selection explored.
MaxSel == 2

\* st.multiselect returns the chosen options in the order they were chosen.
StSelections ==
    { s \in UNION {[1..n -> StOptions] : n \in 0..MaxSel} :
        \A i, j \in 1..Len(s) : i # j => s[i] # s[j] }

ContextSamples == {"", "Chest pain, Age 55"}

\* R-R distance in small squares (min_value 1.0): 20 squares is the default.
RRSquaresSamples == {Rat(20, 1)}

\* QRS complexes in 30 large squares (min_value 0).
QrsCountSamples == {0, 7}

\* PR interval in small squares (min_value 0.0): 119, 120, 200 and 201 ms.
PrSquaresSamples == {Rat(ms, 40) : ms \in {119, 120, 200, 201}}

\* QRS width in small squares (min_value 0.0): 2 squares is the default.
QrsSquaresSamples == {Rat(2, 1)}

\* QT interval in small squares (min_value 1.0): 360 ms (the default) and 420 ms.
\* At 75 bpm these give 402 and 469 ms, at 70 bpm 388 and 453 ms.
QtSquaresSamples == {Rat(ms, 40) : ms \in {360, 420}}

---------------------------------------------------------------------------
(* calculate_qtc *)

Zero == [sgn |-> 0, sq |-> RatInt(0)]

\* Mutant: the fallback hands back the uncorrected QT instead of 0.
calculate_qtc_FallbackQt(qt_interval, hr) ==
    IF RatLe(hr, RatInt(0))
    THEN [sgn |-> Sign(qt_interval.num), sq |-> RatMul(qt_interval, qt_interval)]
    ELSE LET rr_interval_sec == RatDiv(RatInt(60), hr)
         IN  DivBySqrt(qt_interval, Sqrt(rr_interval_sec))

calculate_qtc(qt_interval, hr) ==
    IF RatLe(hr, RatInt(0)) THEN Zero
    ELSE LET rr_interval_sec == RatDiv(RatInt(60), hr)
         IN  DivBySqrt(qt_interval, Sqrt(rr_interval_sec))

---------------------------------------------------------------------------
(* main *)

Init ==
    /\ pc = "sidebar"
    /\ uploaded_file = FALSE
    /\ clinical_context = ""
    /\ report = <<>>
    /\ heart_rate = RatInt(0)
    /\ pr_squares = RatInt(0)
    /\ pr_ms = RatInt(0)
    /\ lead_I = "unset"
    /\ lead_aVF = "unset"
    /\ lead_II = "unset"
    /\ st_selected = <<>>
    /\ st_findings = <<>>
    /\ qt_ms = RatInt(0)
    /\ qtc = Zero
    /\ limit = 0
    /\ alerts = <<>>
    /\ summary = <<>>
    /\ final_text = <<>>

\* Sidebar and image column: without an upload the script stops.
Sidebar ==
    /\ pc = "sidebar"
    /\ \E up \in BOOLEAN, ctx \in ContextSamples :
        /\ uploaded_file' = up
        /\ clinical_context' = ctx
        /\ IF up
           THEN /\ alerts' = alerts
                /\ pc' = "rate_rhythm"
           ELSE /\ alerts' = Append(alerts, Alert("Upload", "warning",
                                    "Please upload an ECG image to begin."))
                /\ pc' = "stopped"
    /\ report' = <<>>
    /\ UNCHANGED <<heart_rate, pr_squares, pr_ms, lead_I, lead_aVF, lead_II,
                   st_selected, st_findings, qt_ms, qtc, limit, summary, final_text>>

HeartRateRegular(rr_small_squares) == RatDiv(RatInt(1500), rr_small_squares)

HeartRateIrregular(qrs_count) == RatInt(qrs_count * 10)

\* Step 1 & 2: heart rate and rhythm.
StepRateRhythm ==
    /\ pc = "rate_rhythm"
    /\ \E rhythm_type \in RhythmOptions :
        /\ IF rhythm_type = <<"Regular">>
           THEN \E rr_small_squares \in RRSquaresSamples :
                    heart_rate' = HeartRateRegular(rr_small_squares)
           ELSE \E qrs_count \in QrsCountSamples :
                    heart_rate' = HeartRateIrregular(qrs_count)
        /\ report' = DictSet(DictSet(report, "Rhythm", rhythm_type),
                             "Heart Rate", Fmt(RatTrunc(heart_rate'), " bpm"))
    /\ pc' = "p_waves"
    /\ UNCHANGED <<uploaded_file, clinical_context, pr_squares, pr_ms, lead_I,
                   lead_aVF, lead_II, st_selected, st_findings, qt_ms, qtc, limit,
                   alerts, summary, final_text>>

PWaveAlerts(p_wave_status) ==
    IF p_wave_status = <<"Absent">>
    THEN <<Alert("P Waves", "error",
                 "suspect Atrial Fibrillation (check for irregular rhythm)")>>
    ELSE IF p_wave_status = <<"More P waves than QRS">>
    THEN <<Alert("P Waves", "warning", "Suspect Atrial Flutter or Atrial Tachycardia")>>
    ELSE IF p_wave_status = <<"Sawtooth Pattern">>
    THEN <<Alert("P Waves", "warning", "Suspect Atrial Flutter")>>
    ELSE <<>>

\* Step 3: P waves.
StepPWaves ==
    /\ pc = "p_waves"
    /\ \E p_wave_status \in PWaveOptions :
        /\ report' = DictSet(report, "P Waves", p_wave_status)
        /\ alerts' = alerts \o PWaveAlerts(p_wave_status)
    /\ pc' = "pr"
    /\ UNCHANGED <<uploaded_file, clinical_context, heart_rate, pr_squares, pr_ms,
                   lead_I, lead_aVF, lead_II, st_selected, st_findings, qt_ms, qtc,
                   limit, summary, final_text>>

\* 40 ms per small square.
IntervalMs(squares) == RatMul(squares, RatInt(40))

\* Mutant: inclusive boundaries, <= 120 and >= 200.
PRAlert_Inclusive(ms) ==
    IF RatLe(ms, RatInt(120))
    THEN Alert("PR Interval", "error", "Short PR (<120ms): Consider WPW or LGL syndrome")
    ELSE IF RatLe(RatInt(200), ms)
    THEN Alert("PR Interval", "error", "Prolonged PR (>200ms): 1st Degree AV Block")
    ELSE Alert("PR Interval", "success", "Normal PR Interval")

PRAlert(ms) ==
    IF RatLt(ms, RatInt(120))
    THEN Alert("PR Interval", "error", "Short PR (<120ms): Consider WPW or LGL syndrome")
    ELSE IF RatLt(RatInt(200), ms)
    THEN Alert("PR Interval", "error", "Prolonged PR (>200ms): 1st Degree AV Block")
    ELSE Alert("PR Interval", "success", "Normal PR Interval")

\* Step 4: PR interval.
StepPR ==
    /\ pc = "pr"
    /\ \E squares \in PrSquaresSamples :
        /\ pr_squares' = squares
        /\ pr_ms' = IntervalMs(squares)
        /\ report' = DictSet(report, "PR Interval", Fmt(RatTrunc(pr_ms'), " ms"))
        /\ alerts' = Append(alerts, PRAlert(pr_ms'))
    /\ pc' = "qrs"
    /\ UNCHANGED <<uploaded_file, clinical_context, heart_rate, lead_I, lead_aVF,
                   lead_II, st_selected, st_findings, qt_ms, qtc, limit, summary,
                   final_text>>

QRSAlert(qrs_ms) ==
    IF RatLe(RatInt(120), qrs_ms)
    THEN Alert("QRS Duration", "error",
               "Wide QRS (>=120ms): Consider Bundle Branch Block, Hyperkalemia, Ventricular Rhythm")
    ELSE Alert("QRS Duration", "success", "Narrow QRS (Normal)")

\* Step 5: QRS duration.
StepQRS ==
    /\ pc = "qrs"
    /\ \E qrs_squares \in QrsSquaresSamples :
        LET qrs_ms == IntervalMs(qrs_squares)
        IN  /\ report' = DictSet(report, "QRS Duration", Fmt(RatTrunc(qrs_ms), " ms"))
            /\ alerts' = Append(alerts, QRSAlert(qrs_ms))
    /\ pc' = "axis"
    /\ UNCHANGED <<uploaded_file, clinical_context, heart_rate, pr_squares, pr_ms,
                   lead_I, lead_aVF, lead_II, st_selected, st_findings, qt_ms, qtc,
                   limit, summary, final_text>>

\* Mutant: Lead I positive with aVF negative is called LAD without Lead II.
AxisResult_NoLeadII(lI, laVF, lII) ==
    IF lI = "Positive" /\ laVF = "Positive"
    THEN <<"Normal Axis (-30° to +90°)">>
    ELSE IF lI = "Negative" /\ laVF = "Positive"
    THEN <<"Right Axis Deviation (", "RAD", ")">>
    ELSE IF lI = "Negative" /\ laVF = "Negative"
    THEN <<"Extreme Axis Deviation">>
    ELSE IF lI = "Positive" /\ laVF = "Negative"
    THEN <<"Left Axis Deviation (", "LAD", ")">>
    ELSE <<"Indeterminate">>

AxisResult(lI, laVF, lII) ==
    IF lI = "Positive" /\ laVF = "Positive"
    THEN <<"Normal Axis (-30° to +90°)">>
    ELSE IF lI = "Negative" /\ laVF = "Positive"
    THEN <<"Right Axis Deviation (", "RAD", ")">>
    ELSE IF lI = "Negative" /\ laVF = "Negative"
    THEN <<"Extreme Axis Deviation">>
    ELSE IF lI = "Positive" /\ laVF = "Negative"
    THEN IF lII = "Positive"
         THEN <<"Normal Axis (0° to -30°)">>
         ELSE <<"Left Axis Deviation (", "LAD", ")">>
    ELSE <<"Indeterminate">>

AxisAlerts(lI, laVF, lII) ==
    IF lI = "Positive" /\ laVF = "Positive"
    THEN <<Alert("Axis", "success", "Normal Axis (-30° to +90°)")>>
    ELSE IF lI = "Negative" /\ laVF = "Positive"
    THEN <<Alert("Axis", "error", "Right Axis Deviation (RAD): Consider RVH, PE, LPHB")>>
    ELSE IF lI = "Negative" /\ laVF = "Negative"
    THEN <<Alert("Axis", "error", "Extreme Axis Deviation")>>
    ELSE IF lI = "Positive" /\ laVF = "Negative"
    THEN IF lII = "Positive"
         THEN <<Alert("Axis", "success", "Normal Axis (0° to -30°)")>>
         ELSE <<Alert("Axis", "error",
                      "Left Axis Deviation (LAD): Consider LVH, LAFB, Inferior MI")>>
    ELSE <<>>

\* The Lead II radio is rendered, and read, only in this branch.
NeedsLeadII(lI, laVF) ==
    /\ ~(lI = "Positive" /\ laVF = "Positive")
    /\ ~(lI = "Negative" /\ laVF = "Positive")
    /\ ~(lI = "Negative" /\ laVF = "Negative")
    /\ lI = "Positive" /\ laVF = "Negative"

\* Step 6: axis determination.
StepAxis ==
    /\ pc = "axis"
    /\ \E lI \in PolarityOptions, laVF \in PolarityOptions :
        /\ lead_I' = lI
        /\ lead_aVF' = laVF
        /\ IF NeedsLeadII(lI, laVF)
           THEN \E lII \in LeadIIOptions : lead_II' = lII
           ELSE lead_II' = "unset"
        /\ report' = DictSet(report, "Axis", AxisResult(lI, laVF, lead_II'))
        /\ alerts' = alerts \o AxisAlerts(lI, laVF, lead_II')
    /\ pc' = "st_t"
    /\ UNCHANGED <<uploaded_file, clinical_context, heart_rate, pr_squares, pr_ms,
                   st_selected, st_findings, qt_ms, qtc, limit, summary, final_text>>

\* Mutant: the empty selection is left as it is.
NormalizeSt_Identity(selection) == selection

\* if not st_findings: st_findings = ["None/Normal"]
NormalizeSt(selection) ==
    IF selection = <<>> THEN << <<"None/Normal">> >> ELSE selection

\* Step 7: ST segment and T waves.
StepST ==
    /\ pc = "st_t"
    /\ \E selection \in StSelections :
        /\ st_selected' = selection
        /\ st_findings' = NormalizeSt(selection)
        /\ report' = DictSet(report, "ST-T Changes", Join(", ", st_findings'))
    /\ pc' = "qt"
    /\ UNCHANGED <<uploaded_file, clinical_context, heart_rate, pr_squares, pr_ms,
                   lead_I, lead_aVF, lead_II, qt_ms, qtc, limit, alerts, summary,
                   final_text>>

GenderLimit(gender) == IF gender = "Male" THEN 440 ELSE 460

QTcAlert(q, lim) ==
    IF SqrtGt(q, lim)
    THEN Alert("QTc", "error",
               "Prolonged QTc (>" \o ToString(lim) \o "ms): Risk of Torsades de Pointes")
    ELSE Alert("QTc", "success", "Normal QTc Interval")

\* Mutant: the step does not record its finding.
StepQT_NoEntry ==
    /\ pc = "qt"
    /\ \E qt_squares \in QtSquaresSamples, gender \in GenderOptions :
        /\ qt_ms' = IntervalMs(qt_squares)
        /\ qtc' = calculate_qtc(qt_ms', heart_rate)
        /\ limit' = GenderLimit(gender)
        /\ alerts' = Append(alerts, QTcAlert(qtc', limit'))
    /\ pc' = "report"
    /\ UNCHANGED <<uploaded_file, clinical_context, report, heart_rate, pr_squares,
                   pr_ms, lead_I, lead_aVF, lead_II, st_selected, st_findings,
                   summary, final_text>>

\* Step 8: QT and QTc.
StepQT ==
    /\ pc = "qt"
    /\ \E qt_squares \in QtSquaresSamples, gender \in GenderOptions :
        /\ qt_ms' = IntervalMs(qt_squares)
        /\ qtc' = calculate_qtc(qt_ms', heart_rate)
        /\ report' = DictSet(report, "QTc", Fmt(SqrtTrunc(qtc'), " ms"))
        /\ limit' = GenderLimit(gender)
        /\ alerts' = Append(alerts, QTcAlert(qtc', limit'))
    /\ pc' = "report"
    /\ UNCHANGED <<uploaded_file, clinical_context, heart_rate, pr_squares, pr_ms,
                   lead_I, lead_aVF, lead_II, st_selected, st_findings, summary,
                   final_text>>

\* Mutant: the Axis and ST/T lines change places.
ReportHeader_Swapped(rep, ctx) ==
    << <<"**ECG Analysis Report**">>,
       <<"**Clinical Context:** ", IF ctx # "" THEN ctx ELSE "Not provided">>,
       <<"**1. Rate:** ">> \o Get(rep, "Heart Rate"),
       <<"**2. Rhythm:** ">> \o Get(rep, "Rhythm"),
       <<"**3. P Waves:** ">> \o Get(rep, "P Waves"),
       <<"**4. PR Interval:** ">> \o Get(rep, "PR Interval"),
       <<"**5. QRS Duration:** ">> \o Get(rep, "QRS Duration"),
       <<"**7. ST/T Changes:** ">> \o Get(rep, "ST-T Changes"),
       <<"**6. Axis:** ">> \o Get(rep, "Axis"),
       <<"**8. QTc:** ">> \o Get(rep, "QTc"),
       <<"**Interpretation Summary:**">> >>

\* The f-string of the report: the context line, then the eight findings.
ReportHeader(rep, ctx) ==
    << <<"**ECG Analysis Report**">>,
       <<"**Clinical Context:** ", IF ctx # "" THEN ctx ELSE "Not provided">>,
       <<"**1. Rate:** ">> \o Get(rep, "Heart Rate"),
       <<"**2. Rhythm:** ">> \o Get(rep, "Rhythm"),
       <<"**3. P Waves:** ">> \o Get(rep, "P Waves"),
       <<"**4. PR Interval:** ">> \o Get(rep, "PR Interval"),
       <<"**5. QRS Duration:** ">> \o Get(rep, "QRS Duration"),
       <<"**6. Axis:** ">> \o Get(rep, "Axis"),
       <<"**7. ST/T Changes:** ">> \o Get(rep, "ST-T Changes"),
       <<"**8. QTc:** ">> \o Get(rep, "QTc"),
       <<"**Interpretation Summary:**">> >>

IrregularSentence == <<"Irregular rhythm detected.">>

SinusSentence == <<"Sinus origin.">>

AxisSentence(axis) == <<"Axis deviation detected: ">> \o axis \o <<".">>

StElevationSentence == <<"CRITICAL: ST Elevation noted - rule out STEMI.">>

QTcSentence == <<"Prolonged QTc interval.">>

NormalSentence ==
    <<"Normal Sinus Rhythm with no acute abnormalities detected based on inputs.">>

\* Mutant: an if/elif chain, so at most one rule fires.
SummaryRules_Elif(rep, findings, q, lim) ==
    IF Get(rep, "Rhythm") = <<"Irregular">> THEN <<IrregularSentence>>
    ELSE IF Contains(Get(rep, "P Waves"), "Sinus") THEN <<SinusSentence>>
    ELSE IF Contains(Get(rep, "Axis"), "LAD") \/ Contains(Get(rep, "Axis"), "RAD")
    THEN <<AxisSentence(Get(rep, "Axis"))>>
    ELSE IF Contains(StrOfList(findings), "ST Elevation") THEN <<StElevationSentence>>
    ELSE IF SqrtGt(q, lim) THEN <<QTcSentence>>
    ELSE <<>>

\* Mutant: the P-wave rule looks for "sinus", which no label contains.
SummaryRules_NoSinus(rep, findings, q, lim) ==
    LET s1 == IF Get(rep, "Rhythm") = <<"Irregular">> THEN <<IrregularSentence>> ELSE <<>>
        s2 == IF Contains(Get(rep, "P Waves"), "sinus")
              THEN Append(s1, SinusSentence) ELSE s1
        s3 == IF Contains(Get(rep, "Axis"), "LAD") \/ Contains(Get(rep, "Axis"), "RAD")
              THEN Append(s2, AxisSentence(Get(rep, "Axis"))) ELSE s2
        s4 == IF Contains(StrOfList(findings), "ST Elevation")
              THEN Append(s3, StElevationSentence) ELSE s3
        s5 == IF SqrtGt(q, lim) THEN Append(s4, QTcSentence) ELSE s4
    IN  s5

\* The five `if ...: summary.append(...)` lines, in source order.
SummaryRules(rep, findings, q, lim) ==
    LET s1 == IF Get(rep, "Rhythm") = <<"Irregular">> THEN <<IrregularSentence>> ELSE <<>>
        s2 == IF Contains(Get(rep, "P Waves"), "Sinus")
              THEN Append(s1, SinusSentence) ELSE s1
        s3 == IF Contains(Get(rep, "Axis"), "LAD") \/ Contains(Get(rep, "Axis"), "RAD")
              THEN Append(s2, AxisSentence(Get(rep, "Axis"))) ELSE s2
        s4 == IF Contains(StrOfList(findings), "ST Elevation")
              THEN Append(s3, StElevationSentence) ELSE s3
        s5 == IF SqrtGt(q, lim) THEN Append(s4, QTcSentence) ELSE s4
    IN  s5

\* Mutant: the normal-result sentence is appended in both branches.
SummaryLines_AlwaysNormal(s) ==
    [i \in 1..Len(s) |-> <<"- ">> \o s[i]] \o <<NormalSentence>>

\* The text appended after the header.
SummaryLines(s) ==
    IF s = <<>> THEN <<NormalSentence>>
    ELSE [i \in 1..Len(s) |-> <<"- ">> \o s[i]]

\* Final report generation.
Report ==
    /\ pc = "report"
    /\ summary' = SummaryRules(report, st_findings, qtc, limit)
    /\ final_text' = ReportHeader(report, clinical_context) \o SummaryLines(summary')
    /\ alerts' = Append(alerts, Alert("Report", "warning",
                            "DISCLAIMER: This tool is for educational and assisting purposes only."))
    /\ pc' = "done"
    /\ UNCHANGED <<uploaded_file, clinical_context, report, heart_rate, pr_squares,
                   pr_ms, lead_I, lead_aVF, lead_II, st_selected, st_findings, qt_ms,
                   qtc, limit>>

\* Any widget interaction runs the script again from the top.
Rerun ==
    /\ pc \in {"done", "stopped"}
    /\ pc' = "sidebar"
    /\ uploaded_file' = FALSE
    /\ clinical_context' = ""
    /\ report' = <<>>
    /\ heart_rate' = RatInt(0)
    /\ pr_squares' = RatInt(0)
    /\ pr_ms' = RatInt(0)
    /\ lead_I' = "unset"
    /\ lead_aVF' = "unset"
    /\ lead_II' = "unset"
    /\ st_selected' = <<>>
    /\ st_findings' = <<>>
    /\ qt_ms' = RatInt(0)
    /\ qtc' = Zero
    /\ limit' = 0
    /\ alerts' = <<>>
    /\ summary' = <<>>
    /\ final_text' = <<>>

Next ==
    \/ Sidebar
    \/ StepRateRhythm
    \/ StepPWaves
    \/ StepPR
    \/ StepQRS
    \/ StepAxis
    \/ StepST
    \/ StepQT
    \/ Report
    \/ Rerun

Spec == Init /\ [][Next]_vars

---------------------------------------------------------------------------
(* calculate_qtc on its own: the arguments are drawn in the initial state *)

\* Largest |heart rate| / 30 and largest |QT| / 40 given to calculate_qtc.
MaxHrArg == 3

MaxQtArg == 4

HrArgs == {Rat(30 * n, d) : n \in -MaxHrArg..MaxHrArg, d \in 1..2}

QtArgs == {RatInt(40 * n) : n \in -MaxQtArg..MaxQtArg}

InitQtc ==
    /\ pc = "qtc_call"
    /\ heart_rate \in HrArgs
    /\ qt_ms \in QtArgs
    /\ uploaded_file = FALSE
    /\ clinical_context = ""
    /\ report = <<>>
    /\ pr_squares = RatInt(0)
    /\ pr_ms = RatInt(0)
    /\ lead_I = "unset"
    /\ lead_aVF = "unset"
    /\ lead_II = "unset"
    /\ st_selected = <<>>
    /\ st_findings = <<>>
    /\ qtc = Zero
    /\ limit = 0
    /\ alerts = <<>>
    /\ summary = <<>>
    /\ final_text = <<>>

CallQtc ==
    /\ pc = "qtc_call"
    /\ qtc' = calculate_qtc(qt_ms, heart_rate)
    /\ pc' = "qtc_return"
    /\ UNCHANGED <<uploaded_file, clinical_context, report, heart_rate, pr_squares,
                   pr_ms, lead_I, lead_aVF, lead_II, st_selected, st_findings, qt_ms,
                   limit, alerts, summary, final_text>>

NextQtc == CallQtc

SpecQtc == InitQtc /\ [][NextQtc]_vars

---------------------------------------------------------------------------
(* Properties *)

\* The run has generated its report.
Done == pc = "done"

\* The alerts a step has shown.
AlertsOf(step) == SelectSeq(alerts, LAMBDA a : a.step = step)

\* The lines of the report after the "Interpretation Summary" heading.
SummarySection == SubSeq(final_text, 12, Len(final_text))

InSeq(x, seq) == \E i \in 1..Len(seq) : seq[i] = x

\* The five rule predicates, read off the findings.
RuleIrregular == Get(report, "Rhythm") = <<"Irregular">>

RuleSinus == Get(report, "P Waves") = <<"Present & Upright (", "Sinus", ")">>

RuleAxis ==
    Get(report, "Axis") \in
        {<<"Left Axis Deviation (", "LAD", ")">>, <<"Right Axis Deviation (", "RAD", ")">>}

RuleStElevation ==
    \E i \in 1..Len(st_findings) : st_findings[i][1] = "ST Elevation"

RuleQTc == qtc.sgn = 1 /\ qtc.sq.num > limit * limit * qtc.sq.den

RulesFired == <<RuleIrregular, RuleSinus, RuleAxis, RuleStElevation, RuleQTc>>

RuleSentences ==
    << <<"Irregular rhythm detected.">>,
       <<"Sinus origin.">>,
       <<"Axis deviation detected: ">> \o Get(report, "Axis") \o <<".">>,
       <<"CRITICAL: ST Elevation noted - rule out STEMI.">>,
       <<"Prolonged QTc interval.">> >>

\* The sentences of the rules that hold, in the order of the list.
ExpectedSummary ==
    LET idx == SelectSeq(<<1, 2, 3, 4, 5>>, LAMBDA i : RulesFired[i])
    IN  [k \in 1..Len(idx) |-> RuleSentences[idx[k]]]

\* C1: for every input, the summary is exactly the subsequence of the five
\* rule sentences whose rule holds, in the fixed order.
C1_SummaryIsRuleSubsequence == Done => summary = ExpectedSummary

\* C1: all five rules fire together.
C1_Witness ==
    /\ Done
    /\ \A i \in 1..5 : RulesFired[i]
    /\ Len(summary) = 5

\* C2: the report ends with the single normal-result sentence iff no rule
\* fires; that sentence never stands beside a rule sentence; the summary
\* section is never empty.
C2_NormalIffNoRule ==
    Done =>
        /\ Len(SummarySection) >= 1
        /\ (\A i \in 1..5 : ~RulesFired[i]) <=> SummarySection = <<NormalSentence>>
        /\ InSeq(NormalSentence, SummarySection) => Len(SummarySection) = 1
        /\ (\E i \in 1..5 : RulesFired[i]) =>
               /\ Len(SummarySection) = Len(ExpectedSummary)
               /\ \A k \in 1..Len(SummarySection) :
                      SummarySection[k] = <<"- ">> \o ExpectedSummary[k]

\* C2: a report whose summary section is the normal-result sentence alone.
C2_Witness ==
    /\ Done
    /\ \A i \in 1..5 : ~RulesFired[i]
    /\ SummarySection = <<NormalSentence>>

\* C3: calculate_qtc returns exactly 0 whenever heart_rate <= 0, whatever the
\* QT; for heart_rate > 0 it returns qt / sqrt(60 / heart_rate), which is 0
\* only for a QT of 0:  sgn(result) = sgn(qt)  and
\* result^2 * 60 = qt^2 * heart_rate.
C3_QtcFallbackAndBazett ==
    pc = "qtc_return" =>
        IF heart_rate.num <= 0
        THEN qtc.sgn = 0 /\ qtc.sq.num = 0
        ELSE /\ qtc.sgn = Sign(qt_ms.num)
             /\ qtc.sq.num * 60 * heart_rate.den * qt_ms.den * qt_ms.den
                    = qt_ms.num * qt_ms.num * heart_rate.num * qtc.sq.den

\* C3: a call with a negative heart rate and a non-zero QT has returned 0.
C3_Witness ==
    /\ pc = "qtc_return"
    /\ heart_rate.num < 0
    /\ qt_ms.num # 0
    /\ qtc = Zero

\* C4: with a non-positive heart rate the QTc of 0 is treated as uncomputed:
\* it is neither classified "Normal QTc Interval" nor reported as "0 ms".
C4_ZeroQtcIsUncomputed ==
    (pc \in {"report", "done"} /\ heart_rate.num <= 0) =>
        /\ \A i \in 1..Len(AlertsOf("QTc")) :
               AlertsOf("QTc")[i].text # "Normal QTc Interval"
        /\ Get(report, "QTc") # <<"0", " ms">>

\* The axis table of the claim.
AxisTable ==
    IF lead_I = "Equiphasic" \/ lead_aVF = "Equiphasic" THEN <<"Indeterminate">>
    ELSE IF lead_I = "Positive" /\ lead_aVF = "Positive"
    THEN <<"Normal Axis (-30° to +90°)">>
    ELSE IF lead_I = "Negative" /\ lead_aVF = "Positive"
    THEN <<"Right Axis Deviation (", "RAD", ")">>
    ELSE IF lead_I = "Negative" /\ lead_aVF = "Negative"
    THEN <<"Extreme Axis Deviation">>
    ELSE IF lead_II = "Positive" THEN <<"Normal Axis (0° to -30°)">>
    ELSE <<"Left Axis Deviation (", "LAD", ")">>

AxisSet == pc \in {"st_t", "qt", "report", "done"}

\* C5: the axis label is the one the two-level table gives for (Lead I,
\* Lead aVF, Lead II); Lead II is read only when Lead I is positive and
\* Lead aVF negative, and is then Positive or Negative.
C5_AxisTable ==
    AxisSet =>
        /\ Get(report, "Axis") = AxisTable
        /\ lead_II # "unset" <=> (lead_I = "Positive" /\ lead_aVF = "Negative")

\* C5: Lead I positive, aVF negative, Lead II negative: LAD.
C5_Witness ==
    /\ AxisSet
    /\ lead_I = "Positive" /\ lead_aVF = "Negative" /\ lead_II = "Negative"
    /\ Get(report, "Axis") = <<"Left Axis Deviation (", "LAD", ")">>

PRSet == pc \in {"qrs", "axis", "st_t", "qt", "report", "done"}

PRCategory(text) ==
    IF text = "Short PR (<120ms): Consider WPW or LGL syndrome" THEN "Short"
    ELSE IF text = "Prolonged PR (>200ms): 1st Degree AV Block" THEN "Prolonged"
    ELSE IF text = "Normal PR Interval" THEN "Normal"
    ELSE "none"

\* C6: pr_ms = squares * 40, and the PR step shows exactly one category:
\* Short iff pr_ms < 120, Prolonged iff pr_ms > 200, otherwise Normal.
C6_PRClassifier ==
    PRSet =>
        /\ pr_ms.num * pr_squares.den = 40 * pr_squares.num * pr_ms.den
        /\ Len(AlertsOf("PR Interval")) = 1
        /\ LET shown == PRCategory(AlertsOf("PR Interval")[1].text)
           IN  /\ shown = "Short" <=> pr_ms.num < 120 * pr_ms.den
               /\ shown = "Prolonged" <=> pr_ms.num > 200 * pr_ms.den
               /\ shown = "Normal" <=>
                      (pr_ms.num >= 120 * pr_ms.den /\ pr_ms.num <= 200 * pr_ms.den)

\* C6: 201 ms is Prolonged.
C6_Witness ==
    /\ PRSet
    /\ pr_ms = RatInt(201)
    /\ PRCategory(AlertsOf("PR Interval")[1].text) = "Prolonged"

\* The keys of `report` in the order main() assigns them.
InsertionOrder ==
    <<"Rhythm", "Heart Rate", "P Waves", "PR Interval", "QRS Duration", "Axis",
      "ST-T Changes", "QTc">>

\* The keys in the order the report text shows them, with their labels.
DisplayOrder ==
    <<"Heart Rate", "Rhythm", "P Waves", "PR Interval", "QRS Duration", "Axis",
      "ST-T Changes", "QTc">>

DisplayLabels ==
    <<"**1. Rate:** ", "**2. Rhythm:** ", "**3. P Waves:** ", "**4. PR Interval:** ",
      "**5. QRS Duration:** ", "**6. Axis:** ", "**7. ST/T Changes:** ", "**8. QTc:** ">>

\* The workflow step a key belongs to: 1 rate/rhythm, 2 P waves, 3 PR, 4 QRS,
\* 5 axis, 6 ST/T, 7 QTc.
StepOf(key) ==
    CASE key \in {"Rhythm", "Heart Rate"} -> 1
      [] key = "P Waves" -> 2
      [] key = "PR Interval" -> 3
      [] key = "QRS Duration" -> 4
      [] key = "Axis" -> 5
      [] key = "ST-T Changes" -> 6
      [] key = "QTc" -> 7

\* How many keys the record holds once the run is at pc.
EntriesAt(p) ==
    CASE p \in {"sidebar", "rate_rhythm", "stopped", "qtc_call", "qtc_return"} -> 0
      [] p = "p_waves" -> 2
      [] p = "pr" -> 3
      [] p = "qrs" -> 4
      [] p = "axis" -> 5
      [] p = "st_t" -> 6
      [] p = "qt" -> 7
      [] p \in {"report", "done"} -> 8

\* The keys the report text shows, in the order of its lines.
DisplayedKeys ==
    [i \in 1..8 |->
        DisplayOrder[CHOOSE j \in 1..8 : DisplayLabels[j] = final_text[2 + i][1]]]

NonDecreasing(seq) == \A i \in 1..(Len(seq) - 1) : seq[i] <= seq[i + 1]

\* C7, as amended: the record is filled in the order Rhythm, Heart Rate,
\* P Waves, PR Interval, QRS Duration, Axis, ST-T Changes, QTc, and after a
\* complete pass holds these eight entries: two for the rate/rhythm step and
\* one for every other step.  The report shows the context line, then the
\* eight findings (Rate before Rhythm, then in the same order), then the
\* summary lines; both orders follow the workflow steps, whatever the inputs.
C7_EightEntriesInStepOrder ==
    /\ Keys(report) = SubSeq(InsertionOrder, 1, EntriesAt(pc))
    /\ Done =>
        /\ Len(report) = 8
        /\ \A n \in 1..7 : Cardinality({i \in 1..8 : StepOf(report[i].key) = n})
                              = IF n = 1 THEN 2 ELSE 1
        /\ final_text[2] = <<"**Clinical Context:** ",
                             IF clinical_context = "" THEN "Not provided"
                             ELSE clinical_context>>
        /\ \A i \in 1..8 :
               final_text[2 + i] = <<DisplayLabels[i]>> \o Get(report, DisplayOrder[i])
        /\ final_text[11] = <<"**Interpretation Summary:**">>
        /\ Len(final_text) = 11 + (IF summary = <<>> THEN 1 ELSE Len(summary))
        /\ \A k \in 1..Len(summary) : final_text[11 + k] = <<"- ">> \o summary[k]
        /\ NonDecreasing([i \in 1..8 |-> StepOf(Keys(report)[i])])
        /\ NonDecreasing([i \in 1..8 |-> StepOf(DisplayedKeys[i])])

\* C7: a complete pass with a context and a non-empty summary.
C7_Witness ==
    /\ Done
    /\ clinical_context # ""
    /\ Len(report) = 8
    /\ Len(summary) >= 2
    /\ Len(final_text) = 11 + Len(summary)

\* C7, as stated: after a complete pass the record holds exactly one entry
\* for each of the seven steps, and the report shows the entries in the order
\* they were inserted.
C7_OneEntryPerStepInsertedAsShown ==
    Done =>
        /\ Len(report) = 7
        /\ DisplayedKeys = Keys(report)

RecordComplete == \A i \in 1..8 : HasKey(report, InsertionOrder[i])

STSet == pc \in {"qt", "report", "done"}

HasStElevation(findings) ==
    \E i \in 1..Len(findings) : Contains(findings[i], "ST Elevation")

\* C9: an empty ST/T selection becomes ["None/Normal"] before it is used: the
\* report line reads "None/Normal" and the ST Elevation rule does not fire.
\* The rule fires exactly when a selected finding contains "ST Elevation",
\* also with "None/Normal" selected beside it.
C9_EmptyStNormalized ==
    /\ STSet =>
        /\ st_selected = <<>> =>
               /\ st_findings = << <<"None/Normal">> >>
               /\ Get(report, "ST-T Changes") = <<"None/Normal">>
        /\ st_selected # <<>> => st_findings = st_selected
    /\ Done =>
        /\ InSeq(StElevationSentence, summary) <=> HasStElevation(st_selected)
        /\ st_selected = <<>> =>
               final_text[9] = <<"**7. ST/T Changes:** ", "None/Normal">>

\* C9: a report from an empty ST/T selection.
C9_Witness ==
    /\ Done
    /\ st_selected = <<>>
    /\ final_text[9] = <<"**7. ST/T Changes:** ", "None/Normal">>
    /\ ~InSeq(StElevationSentence, summary)

SinusOption == <<"Present & Upright (", "Sinus", ")">>

InReport(sentence) ==
    \E i \in 1..Len(final_text) :
        final_text[i] = sentence \/ final_text[i] = <<"- ">> \o sentence

\* C10: the normal-result sentence is in a final report only if the P-wave
\* selection is not "Present & Upright (Sinus)"; with that selection the
\* summary has "Sinus origin." and the normal-result sentence is absent.
C10_NormalOnlyWithoutSinus ==
    Done =>
        /\ InReport(NormalSentence) => Get(report, "P Waves") \in PWaveOptions \ {SinusOption}
        /\ Get(report, "P Waves") = SinusOption =>
               /\ InSeq(SinusSentence, summary)
               /\ InReport(SinusSentence)
               /\ ~InReport(NormalSentence)

\* C10: sinus P waves and every other finding normal: the summary is
\* "Sinus origin." alone.
C10_Witness ==
    /\ Done
    /\ Get(report, "P Waves") = SinusOption
    /\ Get(report, "Rhythm") = <<"Regular">>
    /\ Get(report, "Axis") = <<"Normal Axis (-30° to +90°)">>
    /\ st_findings = << <<"None/Normal">> >>
    /\ ~RuleQTc
    /\ summary = <<SinusSentence>>
    /\ ~InReport(NormalSentence)

===========================================================================
